---- MODULE Spec2Model ----
(***************************************************************************)
(* The Davis-Putnam solver of src/main.cpp (struct DP) as a state machine. *)
(* A Clause is a set of nonzero integers, a NormalForm a set of Clauses.   *)
(* solve and solveRec call each other in tail position only, so the        *)
(* recursion is a loop over the program counter pc.                        *)
(***************************************************************************)
EXTENDS Integers, FiniteSets, Sequences

\* Bounds of the inputs parse may read.
NumAtoms == 3
MaxClauseLen == 3
MaxClauses == 4
\* Bound of the inputs of the runs checked for termination.
MaxFairClauses == 3

Atoms == 1..NumAtoms
Literals == {l \in (0 - NumAtoms)..NumAtoms : l # 0}
Clauses == {c \in SUBSET Literals : Cardinality(c) <= MaxClauseLen}

RECURSIVE NormalForms(_)
NormalForms(n) ==
    IF n = 0 THEN {{}}
    ELSE LET smaller == NormalForms(n - 1)
         IN  smaller \cup {g \cup {c} : g \in smaller, c \in Clauses}

\* The formulas parse may return.
Formulas == NormalForms(MaxClauses)
FairFormulas == NormalForms(MaxFairClauses)

VARIABLES input, f, literals, falseLiterals, conflict, occurrence, it,
          foundNewClause, pc, result

vars == <<input, f, literals, falseLiterals, conflict, occurrence, it,
          foundNewClause, pc, result>>

\* input           the formula parse returned (main's formula before solve)
\* f               the NormalForm& that solve and solveRec change in place
\* literals        DP::literals
\* falseLiterals   DP::falseLiterals
\* conflict        the local bool conflict of solve and of solveRec
\* occurrence, it  solveRec's occurrence map and the key its reverse iterator
\*                 stands at (0: rend)
\* foundNewClause  solveRec's local
\* pc              where the control stands
\* result          what solve returned, as main prints it
TypeOK ==
    /\ input \subseteq Clauses
    /\ f \subseteq SUBSET Literals
    /\ literals \subseteq Literals
    /\ falseLiterals \subseteq Literals
    /\ conflict \in BOOLEAN
    /\ DOMAIN occurrence \subseteq Atoms
    /\ it \in 0..NumAtoms
    /\ foundNewClause \in BOOLEAN
    /\ pc \in {"parse", "solve", "solveIf", "solveRec", "loop", "solveRecIf", "done"}
    /\ result \in {"none", "true", "false"}

----------------------------------------------------------------------------
\* Iteration order of std::set<Literal> and std::set<Clause>.

abs(l) == IF l < 0 THEN 0 - l ELSE l

\* The element of a one-element set.  The loops below bind their arguments
\* through it: C++ passes them by value, evaluated once at the call.
the(s) == CHOOSE x \in s : TRUE

begin(s) == CHOOSE x \in s : \A y \in s : x <= y

\* operator< of std::set<Literal>: lexicographic on the ascending elements.
RECURSIVE ClauseLess(_, _)
ClauseLess(first, second) ==
    \E a \in {first}, b \in {second} :
        IF b = {} THEN FALSE
        ELSE IF a = {} THEN TRUE
        ELSE \E x \in {begin(a)}, y \in {begin(b)} :
                IF x < y THEN TRUE
                ELSE IF y < x THEN FALSE
                ELSE ClauseLess(a \ {x}, b \ {y})

\* f.end(): no clause holds the literal 0.
End == {0}

fbegin(g) ==
    IF g = {} THEN End
    ELSE CHOOSE c \in g : \A d \in g \ {c} : ClauseLess(c, d)

\* ++it, and the iterator f.erase(it) returns.
next(g, c) == fbegin({d \in g : ClauseLess(c, d)})

----------------------------------------------------------------------------
\* The simplifier.

isTautologicClause(clause) == \E l \in clause : (0 - l) \in clause

removeAllTautologyClauses(g) == {c \in g : ~isTautologicClause(c)}

isUnitClause(clause) == Cardinality(clause) = 1

\* Mutant of rescanFrom: the scan goes on from where it stands.
rescanFromNext(erased, after) == after

\* it = f.begin(), after a clause shrank to a unit clause
rescanFrom(erased, after) == fbegin(erased)

\* The scan of removeFalseLiterals from iterator position pos.  conflict is
\* TRUE when the function assigned its out-parameter, FALSE when it left it
\* untouched.
RECURSIVE removeFalseLiteralsFrom(_, _, _)
removeFalseLiteralsFrom(g0, fl0, pos0) == the({
    IF pos = End THEN [f |-> g, falseLiterals |-> fl, conflict |-> FALSE]
    ELSE LET newClause == pos \ fl
             clauseModified == newClause # pos
         IN  IF ~clauseModified THEN removeFalseLiteralsFrom(g, fl, next(g, pos))
             ELSE IF newClause = {}
             THEN [f |-> g, falseLiterals |-> fl, conflict |-> TRUE]
             ELSE LET erased == g \ {pos}
                      after == next(g, pos)
                  IN  IF isUnitClause(newClause)
                      THEN removeFalseLiteralsFrom(
                               erased,
                               fl \cup {0 - begin(newClause)},
                               rescanFrom(erased, after))
                      ELSE removeFalseLiteralsFrom(
                               erased \cup {newClause}, fl, after)
    : g \in {g0}, fl \in {fl0}, pos \in {pos0}})

removeFalseLiterals(g, fl) == removeFalseLiteralsFrom(g, fl, fbegin(g))

\* Mutant of unitConflict: the sign of the looked-up literal is wrong.
unitConflictNegated(unitLiteral, fl) == (0 - unitLiteral) \in fl

\* falseLiterals.find(unitLiteral) != falseLiterals.end()
unitConflict(unitLiteral, fl) == unitLiteral \in fl

RECURSIVE removeUnitClausesFrom(_, _, _)
removeUnitClausesFrom(g0, fl0, pos0) == the({
    IF pos = End
    THEN IF fl # {} THEN removeFalseLiterals(g, fl)
         ELSE [f |-> g, falseLiterals |-> fl, conflict |-> FALSE]
    ELSE IF isUnitClause(pos)
         THEN LET unitLiteral == begin(pos)
              IN  IF unitConflict(unitLiteral, fl)
                  THEN [f |-> g, falseLiterals |-> fl, conflict |-> TRUE]
                  ELSE removeUnitClausesFrom(
                           g \ {pos}, fl \cup {0 - unitLiteral}, next(g, pos))
         ELSE removeUnitClausesFrom(g, fl, next(g, pos))
    : g \in {g0}, fl \in {fl0}, pos \in {pos0}})

removeUnitClauses(g, fl) == removeUnitClausesFrom(g, fl, fbegin(g))

isPureLiteral(literal, g) == \A clause \in g : (0 - literal) \notin clause

removePureClausesByLiteral(g, pureLiteral) == {c \in g : pureLiteral \notin c}

\* The loop of removePureClauses over the literals still to visit.
RECURSIVE removePureClausesOver(_, _)
removePureClausesOver(g0, todo0) == the({
    IF todo = {} THEN g
    ELSE LET literal == begin(todo)
         IN  removePureClausesOver(
                 IF isPureLiteral(literal, g)
                 THEN removePureClausesByLiteral(g, literal)
                 ELSE g,
                 todo \ {literal})
    : g \in {g0}, todo \in {todo0}})

\* Mutant of removePureClauses: only the positive literals are visited.
removePureClausesPositive(g, lits) == removePureClausesOver(g, {l \in lits : l > 0})

removePureClauses(g, lits) == removePureClausesOver(g, lits)

----------------------------------------------------------------------------
\* The resolution step.

RECURSIVE toVector(_)
toVector(g0) == the({
    IF g = {} THEN <<>>
    ELSE LET c == fbegin(g) IN <<c>> \o toVector(g \ {c})
    : g \in {g0}})

allClausesWithGivenLiteral(g, target) == toVector({c \in g : target \in c})

\* Mutant of resolve: only target is left out, its negation is kept.
resolveKeepNegation(first, second, target) ==
    IF target \in first /\ (0 - target) \in second
    THEN {l \in first \cup second : l # target}
    ELSE {}

resolve(first, second, target) ==
    IF target \in first /\ (0 - target) \in second
    THEN {l \in first \cup second : l # target /\ l # 0 - target}
    ELSE {}

maximumOccurrence(g) ==
    [a \in {abs(l) : l \in UNION g} |->
        Cardinality({cl \in g \X Literals : cl[2] \in cl[1] /\ abs(cl[2]) = a})]

\* occurrence.rbegin(), ++it on the reverse iterator; 0 stands for rend().
rbegin(occ) ==
    IF DOMAIN occ = {} THEN 0
    ELSE CHOOSE a \in DOMAIN occ : \A b \in DOMAIN occ : b <= a

rnext(occ, a) ==
    LET below == {b \in DOMAIN occ : b < a}
    IN  IF below = {} THEN 0 ELSE CHOOSE b \in below : \A c \in below : c <= b

\* The two nested loops over clausesWith and clausesWithout, from the k-th
\* pair on.  Ends "Unsat" at an empty resolvent, "Propagated" at a unit
\* resolvent, "Eliminated" when every pair was resolved.
RECURSIVE resolvePairs(_, _, _, _, _)
resolvePairs(g0, clausesWith, clausesWithout, literal, k0) == the({
    IF k > Len(clausesWith) * Len(clausesWithout)
    THEN [outcome |-> "Eliminated", f |-> g, resolved |-> {}]
    ELSE LET clause1 == clausesWith[((k - 1) \div Len(clausesWithout)) + 1]
             clause2 == clausesWithout[((k - 1) % Len(clausesWithout)) + 1]
             resolved == resolve(clause1, clause2, literal)
         IN  IF resolved = {}
             THEN [outcome |-> "Unsat", f |-> g, resolved |-> resolved]
             ELSE IF isUnitClause(resolved)
             THEN [outcome |-> "Propagated", f |-> g, resolved |-> resolved]
             ELSE resolvePairs(
                      IF ~isTautologicClause(resolved) THEN g \cup {resolved} ELSE g,
                      clausesWith, clausesWithout, literal, k + 1)
    : g \in {g0}, k \in {k0}})

\* Mutant of eraseClauses: the clauses resolved on stay in the formula.
eraseNoClauses(g, used) == g

\* for (const Clause& clause : used) f.erase(clause);
eraseClauses(g, used) == g \ {used[i] : i \in 1..Len(used)}

\* Mutant of eraseAtom: the negative literal is not erased.
eraseAtomPositive(s, literal) == s \ {literal}

\* s.erase(literal); s.erase(-literal);
eraseAtom(s, literal) == s \ {literal, 0 - literal}

\* Reading a bool that was declared without an initializer and that the callee
\* did not assign: either value.
readConflict(assigned) == IF assigned THEN {TRUE} ELSE BOOLEAN

----------------------------------------------------------------------------
Init ==
    /\ input = {}
    /\ f = {}
    /\ literals = {}
    /\ falseLiterals = {}
    /\ conflict = FALSE
    /\ occurrence = <<>>
    /\ it = 0
    /\ foundNewClause = FALSE
    /\ pc = "parse"
    /\ result = "none"

\* parse: the clauses read and the literals met in them
parse(formulas) ==
    /\ input' \in formulas
    /\ f' = input'
    /\ literals' = UNION input'

\* main: formula = solver.parse(std::cin)
Parse ==
    /\ pc = "parse"
    /\ parse(Formulas)
    /\ pc' = "solve"
    /\ UNCHANGED <<falseLiterals, conflict, occurrence, it, foundNewClause, result>>

ParseFair ==
    /\ pc = "parse"
    /\ parse(FairFormulas)
    /\ pc' = "solve"
    /\ UNCHANGED <<falseLiterals, conflict, occurrence, it, foundNewClause, result>>

\* solve, up to the return of removeUnitClauses
Solve ==
    /\ pc = "solve"
    /\ \E r \in {removeUnitClauses(removeAllTautologyClauses(f), falseLiterals)} :
          /\ f' = r.f
          /\ falseLiterals' = r.falseLiterals
          /\ conflict' \in readConflict(r.conflict)
    /\ pc' = "solveIf"
    /\ UNCHANGED <<input, literals, occurrence, it, foundNewClause, result>>

\* solve: if (conflict) return false; return solveRec(f);
SolveIf ==
    /\ pc = "solveIf"
    /\ IF conflict
       THEN pc' = "done" /\ result' = "false"
       ELSE pc' = "solveRec" /\ UNCHANGED result
    /\ UNCHANGED <<input, f, literals, falseLiterals, conflict, occurrence, it,
                   foundNewClause>>

\* solveRec, up to the first test of the for loop
SolveRec ==
    /\ pc = "solveRec"
    /\ \E g \in {removePureClauses(f, literals)} :
           /\ f' = g
           /\ IF g = {}
              THEN /\ pc' = "done" /\ result' = "true"
                   /\ UNCHANGED <<occurrence, it, foundNewClause>>
              ELSE IF g = {{}}
              THEN /\ pc' = "done" /\ result' = "false"
                   /\ UNCHANGED <<occurrence, it, foundNewClause>>
              ELSE /\ foundNewClause' = FALSE
                   /\ occurrence' = maximumOccurrence(g)
                   /\ it' = rbegin(maximumOccurrence(g))
                   /\ pc' = "loop"
                   /\ UNCHANGED result
    /\ UNCHANGED <<input, literals, falseLiterals, conflict>>

\* solveRec: one iteration of the for loop over occurrence
LoopBody ==
    /\ pc = "loop"
    /\ it # 0
    /\ \E literal \in {it},
          clausesWith \in {allClausesWithGivenLiteral(f, it)},
          clausesWithout \in {allClausesWithGivenLiteral(f, 0 - it)} :
           IF clausesWith = <<>> \/ clausesWithout = <<>>
           THEN /\ it' = rnext(occurrence, it)
                /\ UNCHANGED <<f, literals, falseLiterals, conflict,
                               foundNewClause, pc, result>>
           ELSE \E r \in {resolvePairs(f, clausesWith, clausesWithout, literal, 1)} :
                    /\ foundNewClause' = TRUE
                    /\ CASE r.outcome = "Unsat" ->
                              /\ pc' = "done" /\ result' = "false"
                              /\ f' = r.f
                              /\ UNCHANGED <<literals, falseLiterals, conflict, it>>
                         [] r.outcome = "Propagated" ->
                              \E p \in {removeFalseLiterals(
                                           r.f,
                                           falseLiterals \cup {0 - begin(r.resolved)})} :
                                  /\ f' = p.f
                                  /\ falseLiterals' = p.falseLiterals
                                  /\ conflict' \in readConflict(p.conflict)
                                  /\ pc' = "solveRecIf"
                                  /\ UNCHANGED <<literals, it, result>>
                         [] r.outcome = "Eliminated" ->
                              /\ f' = eraseClauses(eraseClauses(r.f, clausesWith),
                                                   clausesWithout)
                              /\ literals' = eraseAtom(literals, literal)
                              /\ falseLiterals' = eraseAtom(falseLiterals, literal)
                              /\ it' = rnext(occurrence, it)
                              /\ UNCHANGED <<conflict, pc, result>>
    /\ UNCHANGED <<input, occurrence>>

\* solveRec: if (conflict) return false; return solveRec(f);
SolveRecIf ==
    /\ pc = "solveRecIf"
    /\ IF conflict
       THEN pc' = "done" /\ result' = "false"
       ELSE pc' = "solveRec" /\ UNCHANGED result
    /\ UNCHANGED <<input, f, literals, falseLiterals, conflict, occurrence, it,
                   foundNewClause>>

\* solveRec, after the for loop
LoopEnd ==
    /\ pc = "loop"
    /\ it = 0
    /\ IF ~foundNewClause
       THEN pc' = "done" /\ result' = "true"
       ELSE pc' = "solve" /\ UNCHANGED result
    /\ UNCHANGED <<input, f, literals, falseLiterals, conflict, occurrence, it,
                   foundNewClause>>

Next ==
    \/ Parse
    \/ Solve
    \/ SolveIf
    \/ SolveRec
    \/ LoopBody
    \/ SolveRecIf
    \/ LoopEnd

Spec == Init /\ [][Next]_vars

NextFair ==
    \/ ParseFair
    \/ Solve
    \/ SolveIf
    \/ SolveRec
    \/ LoopBody
    \/ SolveRecIf
    \/ LoopEnd

\* The program is one thread that runs to its return.
FairSpec == Init /\ [][NextFair]_vars /\ WF_vars(NextFair)

----------------------------------------------------------------------------
\* Truth assignments: S is the set of the atoms that are true.

holds(S, l) == IF l > 0 THEN l \in S ELSE (0 - l) \notin S

Satisfiable(g) == \E S \in SUBSET Atoms : \A c \in g : \E l \in c : holds(S, l)

occurs(l, g) == \E c \in g : l \in c

\* A nonempty clause all of whose literals are in fl: what removeUnitClauses
\* and removeFalseLiterals report as a conflict.
falsified(g, fl) == \E c \in g : c # {} /\ c \subseteq fl

hasComplementaryUnits(g) == \E p \in Atoms : {p} \in g /\ {0 - p} \in g

\* The loop iteration at hand resolves on the atom it and resolves every pair.
eliminationCompletes ==
    /\ pc = "loop"
    /\ it # 0
    /\ occurs(it, f)
    /\ occurs(0 - it, f)
    /\ pc' = "loop"

\* Neither literal of atom a is in the literal universe or in a clause.
gone(a) == {a, 0 - a} \cap (literals \cup UNION f) = {}

----------------------------------------------------------------------------
\* C1: whenever solve returns true, some truth assignment satisfies every
\* clause of the input formula; a formula that holds the empty clause is never
\* reported true.
C1_TrueImpliesSatisfiable ==
    (pc = "done" /\ result = "true") => Satisfiable(input)

\* C2: whenever solve returns false, no truth assignment satisfies every
\* clause of the input formula.
C2_FalseImpliesUnsatisfiable ==
    (pc = "done" /\ result = "false") => ~Satisfiable(input)

\* C3: solve terminates: every run reaches a return of true or false.
C3_Terminates == <>(pc = "done")

\* C3 witness: a solve that returned after an atom was eliminated, the loop
\* found a resolution and solveRec was entered again.
C3_Witness ==
    /\ pc = "done"
    /\ result = "true"
    /\ foundNewClause
    /\ literals # UNION input
    /\ falseLiterals # {}

\* C4: a formula that holds the unit clauses {p} and {-p} makes solve return
\* false from its test of the conflict flag after the first unit propagation:
\* solveRec is never entered, no occurrence map is built, no atom is eliminated.
C4_ComplementaryUnitsConflict ==
    (hasComplementaryUnits(input) /\ pc \notin {"parse", "solve"}) =>
        /\ pc \in {"solveIf", "done"}
        /\ conflict
        /\ pc = "done" => result = "false"
        /\ occurrence = <<>>
        /\ ~foundNewClause
        /\ literals = UNION input

\* C4 witness: solve has returned on a formula with both unit clauses of an
\* atom and two more clauses, one of them a unit clause that sorts first.
C4_Witness ==
    /\ pc = "done"
    /\ Cardinality(input) = 4
    /\ \E p \in Atoms :
          /\ {p} \in input /\ {0 - p} \in input
          /\ \E c \in input : isUnitClause(c) /\ ClauseLess(c, {0 - p})
          /\ \E c \in input : Cardinality(c) = 3 /\ ~isTautologicClause(c)

\* C5: when removeUnitClauses has returned without a conflict, no clause holds
\* a literal of falseLiterals and no clause has exactly one literal.
C5_PropagationFixpoint ==
    (pc = "solveIf" /\ ~conflict) =>
        \A c \in f : c \cap falseLiterals = {} /\ ~isUnitClause(c)

\* C5 witness: propagation returned without a conflict after it shrank a clause
\* of three literals to one of two, which it kept, and another clause to a
\* unit clause, whose literal it recorded.
C5_Witness ==
    /\ pc = "solveIf"
    /\ ~conflict
    /\ Cardinality({c \in input : isUnitClause(c)}) = 1
    /\ Cardinality(falseLiterals) >= 2
    /\ \E c \in input : Cardinality(c) = 3 /\ \E l \in c :
           /\ l \in falseLiterals
           /\ (c \ {l}) \in f
           /\ (c \ {l}) \notin input

\* C6: an elimination of atom a that runs to completion leaves the formula
\* minus every clause with a or -a, plus the non-tautological resolvent
\* (c1 \cup c2) \ {a, -a} of every pair c1 with a, c2 with -a.
C6_ResolventsCoverEveryPair ==
    [][eliminationCompletes =>
        f' = (f \ {c \in f : it \in c \/ (0 - it) \in c})
             \cup {r \in {(c1 \cup c2) \ {it, 0 - it} :
                            c1 \in {c \in f : it \in c},
                            c2 \in {c \in f : (0 - it) \in c}} :
                     ~isTautologicClause(r)}]_vars

\* C6 witness: an elimination has completed on two clauses with the atom and
\* two with its negation, and left a resolvent the input did not hold.
C6_Witness ==
    /\ pc = "loop"
    /\ foundNewClause
    /\ falseLiterals = {}
    /\ \E c \in f : c \notin input /\ Cardinality(c) >= 2
    /\ \E a \in Atoms :
          /\ gone(a)
          /\ Cardinality({c \in input : a \in c /\ ~isTautologicClause(c)}) = 2
          /\ Cardinality({c \in input : (0 - a) \in c /\ ~isTautologicClause(c)}) = 2

\* C7: the atoms of a pass are tried in descending order of their occurrence
\* count: no atom still to be tried occurs more often than the atom at hand.
C7_DescendingOccurrence ==
    (pc = "loop" /\ it # 0) =>
        \A b \in DOMAIN occurrence : b < it => occurrence[b] <= occurrence[it]

\* C8: after removePureClauses no clause holds a literal that was pure when the
\* pass began (it occurred in a clause, its negation in none), whatever its
\* sign; every literal of the formula is in the literal universe.
C8_PureLiteralsRemoved ==
    [][pc = "solveRec" =>
        /\ UNION f \subseteq literals
        /\ \A l \in Literals :
              (occurs(l, f) /\ ~occurs(0 - l, f)) => ~occurs(l, f')]_vars

\* C8 witness: the first pure-literal pass of a solve without unit clauses took
\* a clause of the input out of the formula and left others.
C8_Witness ==
    /\ pc = "loop"
    /\ ~foundNewClause
    /\ it = rbegin(occurrence)
    /\ falseLiterals = {}
    /\ literals = UNION input
    /\ \E c \in input : ~isTautologicClause(c) /\ c \notin f

\* C9: during a solve the literal universe never gains a member; a completed
\* elimination takes both literals of its atom out of it; and an atom neither
\* of whose literals is in the universe or in a clause stays that way.
C9_UniverseShrinks ==
    [][pc # "parse" =>
        /\ literals' \subseteq literals
        /\ eliminationCompletes =>
              /\ {it, 0 - it} \subseteq literals
              /\ literals' = literals \ {it, 0 - it}
              /\ ~occurs(it, f') /\ ~occurs(0 - it, f')
        /\ \A a \in Atoms : gone(a) => gone(a)']_vars

\* C9 witness: solveRec is entered again with a nonempty formula after an atom
\* of the input was eliminated.
C9_Witness ==
    /\ pc = "solveRec"
    /\ f # {}
    /\ \E a \in Atoms : {a, 0 - a} \subseteq UNION input /\ gone(a)

\* C10: the conflict flag that solve and solveRec test is true only when the
\* call before it met a conflict: a nonempty clause all of whose literals are
\* in falseLiterals.
C10_FlagOnlyOnConflict ==
    (pc \in {"solveIf", "solveRecIf"} /\ conflict) => falsified(f, falseLiterals)

====
